---- MODULE Spec2Model ----
(***************************************************************************)
(* RoutingSockOps::get_mysql_socket (router/src/routing/src/routing.cc):   *)
(* one invocation of the destination connection-establishment engine,      *)
(* driven against a scripted resolver and a scripted socket layer.         *)
(*                                                                         *)
(* The resolver stub and the behaviour of every candidate endpoint are     *)
(* fixed in Init (a test double's script); the engine's statements are the *)
(* actions.  Every call the engine makes to net::impl::socket or to the    *)
(* socket-operations object so_ is appended to `calls`, and its effect on  *)
(* the descriptor table is applied to `sockets`.  Log statements have no   *)
(* effect on the outcome and are not modelled.                             *)
(***************************************************************************)
EXTENDS Integers, Sequences, FiniteSets, TLC

\* ---- bounds of the model ------------------------------------------------
MaxCandidates == 2      \* longest addrinfo list the resolver stub returns
MaxTimeout == 2         \* largest connect_timeout_ms the caller passes

\* ---- program constants --------------------------------------------------
kInvalidSocket == -1

\* ---- error codes --------------------------------------------------------
\* getaddrinfo() failures (resolver error category)
ResolverErrors == {"host_not_found"}
\* connect() results that start the non-blocking wait (lines 185-188)
InProgressErrors == {"operation_in_progress", "operation_would_block"}
\* any other connect() failure (line 205)
ConnectErrors == {"network_unreachable"}
\* errors connect_non_blocking_status() may report
StatusErrors == {"host_unreachable"}
\* the error socket() reports when it cannot create a socket
SocketErrors == {"address_family_not_supported"}
\* errors connect_non_blocking_wait() may report
WaitErrors == {"timed_out", "interrupted"}
\* errors setsockopt() may report
SockoptErrors == {"invalid_argument"}

\* ---- the scripted environment -------------------------------------------
\* How one resolved endpoint behaves: does socket() succeed, what does
\* connect() return, what does the writability wait return, what does the
\* connect status return.  "na" marks a call the script never reaches.
Behaviours ==
       {[create |-> FALSE, connect |-> "na", wait |-> "na", status |-> "na"]}
  \cup {[create |-> TRUE, connect |-> c, wait |-> "na", status |-> "na"] :
          c \in {"ok"} \cup ConnectErrors}
  \cup {[create |-> TRUE, connect |-> c, wait |-> w, status |-> "na"] :
          c \in InProgressErrors, w \in WaitErrors}
  \cup {[create |-> TRUE, connect |-> c, wait |-> "ok", status |-> s] :
          c \in InProgressErrors, s \in {"ok"} \cup StatusErrors}

CandidateLists == UNION {[1..n -> Behaviours] : n \in 0..MaxCandidates}

\* What net::impl::resolver::getaddrinfo returns: an error, or the list.
ResolverResults ==
       {[ok |-> FALSE, ec |-> e, list |-> <<>>] : e \in ResolverErrors}
  \cup {[ok |-> TRUE, ec |-> "none", list |-> l] : l \in CandidateLists}

VARIABLES
  addrinfo_res,        \* the resolver stub's answer for addr
  connect_timeout_ms,  \* the caller's timeout argument
  nonblock_at_create,  \* TRUE on builds where SOCK_NONBLOCK is or-ed in
  pc,                  \* the statement the invocation is at
  info,                \* index into the addrinfo list; Len+1 is nullptr
  sock,                \* the local handle
  timeout_expired,     \* the local flag
  result,              \* what the invocation returned
  sockets,             \* every socket created, in creation order
  calls,               \* every socket-layer call made, in call order
  waited               \* time spent inside connect_non_blocking_wait

\* State outside get_mysql_socket, used by the other specifications of this
\* module and left alone by the invocation modelled above.
VARIABLES
  reg,                 \* a caller of the name registry: its inputs and results
  routing_sock_ops,    \* the function-local static of RoutingSockOps::instance
  callers,             \* the callers of RoutingSockOps::instance
  instance_log,        \* the calls of instance() and their returns, in order
  inv,                 \* concurrent invocations of get_mysql_socket: locals
  fds                  \* the descriptor table the concurrent invocations share

statics == <<routing_sock_ops, callers, instance_log>>

workers == <<inv, fds>>

others == <<reg, statics, workers>>

vars == <<addrinfo_res, connect_timeout_ms, nonblock_at_create, pc, info,
          sock, timeout_expired, result, sockets, calls, waited, reg,
          routing_sock_ops, callers, instance_log, inv, fds>>

env == <<addrinfo_res, connect_timeout_ms, nonblock_at_create>>

\* ---- the descriptor table (socket layer) --------------------------------
OpenFds(socks) == {socks[i].fd : i \in {j \in 1..Len(socks) : socks[j].open}}

\* socket() hands out the lowest descriptor not in use.
LowestFreeFd(socks) ==
  CHOOSE f \in 1..(Len(socks) + 1) :
    /\ f \notin OpenFds(socks)
    /\ \A g \in 1..(Len(socks) + 1) : g \notin OpenFds(socks) => f <= g

\* The open socket a descriptor names; 0 when it names none.
InstanceOf(socks, fd) ==
  IF \E i \in 1..Len(socks) : socks[i].open /\ socks[i].fd = fd
    THEN CHOOSE i \in 1..Len(socks) : socks[i].open /\ socks[i].fd = fd
    ELSE 0

NewSocket(socks, cand, nonblock) ==
  Append(socks, [fd |-> LowestFreeFd(socks), cand |-> cand, open |-> TRUE,
                 blocking |-> ~nonblock, nodelay |-> FALSE])

SetBlockingOn(socks, fd, blocking) ==
  LET i == InstanceOf(socks, fd) IN
  IF i = 0 THEN socks ELSE [socks EXCEPT ![i].blocking = blocking]

SetNoDelayOn(socks, fd) ==
  LET i == InstanceOf(socks, fd) IN
  IF i = 0 THEN socks ELSE [socks EXCEPT ![i].nodelay = TRUE]

CloseOn(socks, fd) ==
  LET i == InstanceOf(socks, fd) IN
  IF i = 0 THEN socks ELSE [socks EXCEPT ![i].open = FALSE]

\* How long a writability wait started with `timeout` can take: it returns
\* within the timeout, and a wait that timed out used all of it.
WaitElapsed(timeout, res) ==
  IF res = "timed_out" THEN {timeout} ELSE 0..timeout

\* One recorded call: the operation, the candidate being tried, the handle
\* passed, the socket it named, the argument and the result.
Call(op, fd, arg, res) ==
  [op |-> op, cand |-> info, fd |-> fd, inst |-> InstanceOf(sockets, fd),
   arg |-> arg, res |-> res]

\* ---- results ------------------------------------------------------------
Pending == [has |-> "pending", sock |-> kInvalidSocket, ec |-> "none"]
Unexpected(e) == [has |-> "error", sock |-> kInvalidSocket, ec |-> e]
Expected(s) == [has |-> "value", sock |-> s, ec |-> "none"]

AtEnd == info > Len(addrinfo_res.list)      \* info == nullptr
Cur == addrinfo_res.list[info]              \* *info

\* The registry caller when no registry call is being looked at.
RegIdle == [at |-> "idle"]

\* RoutingSockOps::instance before any call: the static is not constructed.
NCallers == 2           \* threads that call RoutingSockOps::instance
MaxInstanceCalls == 3   \* calls of RoutingSockOps::instance looked at
InstanceCallers == 1..NCallers
NoSockOps == "(none)"

InstanceNotCalled ==
  /\ routing_sock_ops = [guard |-> "uninitialized", so_ |-> NoSockOps,
                         id |-> 0]
  /\ callers = [c \in InstanceCallers |->
                  [at |-> "idle", sock_ops |-> NoSockOps]]
  /\ instance_log = <<>>

\* No concurrent invocations.
NoWorkers ==
  /\ inv = <<>>
  /\ fds = <<>>

Init ==
  /\ reg = RegIdle
  /\ InstanceNotCalled
  /\ NoWorkers
  /\ addrinfo_res \in ResolverResults
  /\ connect_timeout_ms \in 1..MaxTimeout
  /\ nonblock_at_create \in BOOLEAN
  /\ pc = "getaddrinfo"
  /\ info = 1
  /\ sock = kInvalidSocket
  /\ timeout_expired = FALSE
  /\ result = Pending
  /\ sockets = <<>>
  /\ calls = <<>>
  /\ waited = 0

\* Mutant of Resolve: the failure of getaddrinfo is not checked.
ResolveIgnoresFailure ==
  /\ pc = "getaddrinfo"
  /\ pc' = "for"
  /\ UNCHANGED others
  /\ UNCHANGED <<env, info, sock, timeout_expired, result, sockets, calls,
                 waited>>

\* lines 151-164: resolve; a failure is returned at once.
Resolve ==
  /\ pc = "getaddrinfo"
  /\ IF ~addrinfo_res.ok
       THEN /\ result' = Unexpected(addrinfo_res.ec)
            /\ pc' = "done"
       ELSE /\ pc' = "for"
            /\ UNCHANGED result
  /\ UNCHANGED others
  /\ UNCHANGED <<env, info, sock, timeout_expired, sockets, calls, waited>>

\* line 165: the loop condition info != nullptr.
LoopTest ==
  /\ pc = "for"
  /\ pc' = IF AtEnd THEN "after_loop" ELSE "socket"
  /\ UNCHANGED others
  /\ UNCHANGED <<env, info, sock, timeout_expired, result, sockets, calls,
                 waited>>

\* Mutant of CreateSocket: a failing socket() ends the invocation with its
\* error.
CreateSocketFatal ==
  /\ pc = "socket"
  /\ IF ~Cur.create
       THEN /\ calls' = Append(calls, Call("socket", kInvalidSocket,
                                           nonblock_at_create,
                                           CHOOSE e \in SocketErrors : TRUE))
            /\ result' = Unexpected(CHOOSE e \in SocketErrors : TRUE)
            /\ pc' = "done"
            /\ UNCHANGED <<info, sock, sockets>>
       ELSE /\ sockets' = NewSocket(sockets, info, nonblock_at_create)
            /\ sock' = LowestFreeFd(sockets)
            /\ calls' = Append(calls, [Call("socket", kInvalidSocket,
                                            nonblock_at_create, "ok")
                                       EXCEPT !.fd = LowestFreeFd(sockets),
                                              !.inst = Len(sockets) + 1])
            /\ pc' = "set_nonblocking"
            /\ UNCHANGED <<info, result>>
  /\ UNCHANGED others
  /\ UNCHANGED <<env, timeout_expired, waited>>

\* Mutant of CreateSocket: a failing socket() falls into the common
\* close-and-reset path.
CreateSocketFailureCloses ==
  /\ pc = "socket"
  /\ IF ~Cur.create
       THEN /\ calls' = Append(calls, Call("socket", kInvalidSocket,
                                           nonblock_at_create,
                                           CHOOSE e \in SocketErrors : TRUE))
            /\ pc' = "close"
            /\ UNCHANGED <<sock, sockets>>
       ELSE /\ sockets' = NewSocket(sockets, info, nonblock_at_create)
            /\ sock' = LowestFreeFd(sockets)
            /\ calls' = Append(calls, [Call("socket", kInvalidSocket,
                                            nonblock_at_create, "ok")
                                       EXCEPT !.fd = LowestFreeFd(sockets),
                                              !.inst = Len(sockets) + 1])
            /\ pc' = "set_nonblocking"
  /\ UNCHANGED others
  /\ UNCHANGED <<env, info, timeout_expired, result, waited>>

\* lines 166-178: socket(); on failure go on with the next candidate.
CreateSocket ==
  /\ pc = "socket"
  /\ IF ~Cur.create
       THEN /\ calls' = Append(calls, Call("socket", kInvalidSocket,
                                           nonblock_at_create,
                                           CHOOSE e \in SocketErrors : TRUE))
            /\ info' = info + 1
            /\ pc' = "for"
            /\ UNCHANGED <<sock, sockets>>
       ELSE /\ sockets' = NewSocket(sockets, info, nonblock_at_create)
            /\ sock' = LowestFreeFd(sockets)
            /\ calls' = Append(calls, [Call("socket", kInvalidSocket,
                                            nonblock_at_create, "ok")
                                       EXCEPT !.fd = LowestFreeFd(sockets),
                                              !.inst = Len(sockets) + 1])
            /\ pc' = "set_nonblocking"
            /\ UNCHANGED info
  /\ UNCHANGED others
  /\ UNCHANGED <<env, timeout_expired, result, waited>>

\* Mutant of SetNonBlocking: the switch is left to socket()'s SOCK_NONBLOCK.
SetNonBlockingSkipped ==
  /\ pc = "set_nonblocking"
  /\ pc' = "connect"
  /\ UNCHANGED others
  /\ UNCHANGED <<env, info, sock, timeout_expired, result, sockets, calls,
                 waited>>

\* line 180: so_->set_socket_blocking(sock, false).
SetNonBlocking ==
  /\ pc = "set_nonblocking"
  /\ calls' = Append(calls, Call("set_socket_blocking", sock, FALSE, "ok"))
  /\ sockets' = SetBlockingOn(sockets, sock, FALSE)
  /\ pc' = "connect"
  /\ UNCHANGED others
  /\ UNCHANGED <<env, info, sock, timeout_expired, result, waited>>

\* Mutant of Connect: a connect() that fails outright goes on to the next
\* candidate without closing the socket.
ConnectNoCloseOnFailure ==
  /\ pc = "connect"
  /\ calls' = Append(calls, Call("connect", sock, info, Cur.connect))
  /\ pc' = IF Cur.connect = "ok" THEN "after_loop"
           ELSE IF Cur.connect \in InProgressErrors THEN "wait"
           ELSE "reset"
  /\ UNCHANGED others
  /\ UNCHANGED <<env, info, sock, timeout_expired, result, sockets, waited>>

\* lines 182-188, 205-212: connect() and the three ways it can end.
Connect ==
  /\ pc = "connect"
  /\ calls' = Append(calls, Call("connect", sock, info, Cur.connect))
  /\ pc' = IF Cur.connect = "ok" THEN "after_loop"
           ELSE IF Cur.connect \in InProgressErrors THEN "wait"
           ELSE "close"
  /\ UNCHANGED others
  /\ UNCHANGED <<env, info, sock, timeout_expired, result, sockets, waited>>

\* Mutant of ConnectWait: the wait gets what is left of one budget shared
\* by all candidates.
ConnectWaitRemainingBudget ==
  /\ pc = "wait"
  /\ LET left == IF waited >= connect_timeout_ms THEN 0
                 ELSE connect_timeout_ms - waited IN
       /\ \E elapsed \in WaitElapsed(left, Cur.wait) :
            waited' = waited + elapsed
       /\ calls' = Append(calls, Call("connect_non_blocking_wait", sock, left,
                                      Cur.wait))
  /\ IF Cur.wait # "ok"
       THEN /\ timeout_expired' = (Cur.wait = "timed_out")
            /\ pc' = "close"
       ELSE /\ pc' = "status"
            /\ UNCHANGED timeout_expired
  /\ UNCHANGED others
  /\ UNCHANGED <<env, info, sock, result, sockets>>

\* Mutant of ConnectWait: a timeout, once seen, is never cleared.
ConnectWaitStickyFlag ==
  /\ pc = "wait"
  /\ \E elapsed \in WaitElapsed(connect_timeout_ms, Cur.wait) :
       waited' = waited + elapsed
  /\ calls' = Append(calls, Call("connect_non_blocking_wait", sock,
                                 connect_timeout_ms, Cur.wait))
  /\ IF Cur.wait # "ok"
       THEN /\ timeout_expired' = (timeout_expired \/ Cur.wait = "timed_out")
            /\ pc' = "close"
       ELSE /\ pc' = "status"
            /\ UNCHANGED timeout_expired
  /\ UNCHANGED others
  /\ UNCHANGED <<env, info, sock, result, sockets>>

\* lines 189-198: so_->connect_non_blocking_wait(sock, connect_timeout_ms).
ConnectWait ==
  /\ pc = "wait"
  /\ \E elapsed \in WaitElapsed(connect_timeout_ms, Cur.wait) :
       waited' = waited + elapsed
  /\ calls' = Append(calls, Call("connect_non_blocking_wait", sock,
                                 connect_timeout_ms, Cur.wait))
  /\ IF Cur.wait # "ok"
       THEN /\ timeout_expired' = (Cur.wait = "timed_out")
            /\ pc' = "close"
       ELSE /\ pc' = "status"
            /\ UNCHANGED timeout_expired
  /\ UNCHANGED others
  /\ UNCHANGED <<env, info, sock, result, sockets>>

\* Mutant of ConnectStatus: a successful status does not leave the loop.
ConnectStatusNoBreak ==
  /\ pc = "status"
  /\ calls' = Append(calls, Call("connect_non_blocking_status", sock, info,
                                 Cur.status))
  /\ pc' = "close"
  /\ UNCHANGED others
  /\ UNCHANGED <<env, info, sock, timeout_expired, result, sockets, waited>>

\* lines 199-203: so_->connect_non_blocking_status(sock).
ConnectStatus ==
  /\ pc = "status"
  /\ calls' = Append(calls, Call("connect_non_blocking_status", sock, info,
                                 Cur.status))
  /\ pc' = IF Cur.status = "ok" THEN "after_loop" ELSE "close"
  /\ UNCHANGED others
  /\ UNCHANGED <<env, info, sock, timeout_expired, result, sockets, waited>>

\* line 215: so_->close(sock) for a candidate that did not win.
CloseSocket ==
  /\ pc = "close"
  /\ calls' = Append(calls, Call("close", sock, info, "ok"))
  /\ sockets' = CloseOn(sockets, sock)
  /\ pc' = "reset"
  /\ UNCHANGED others
  /\ UNCHANGED <<env, info, sock, timeout_expired, result, waited>>

\* Mutant of ResetSock: the loop does not move on to ai_next.
ResetSockNoAdvance ==
  /\ pc = "reset"
  /\ sock' = kInvalidSocket
  /\ pc' = "for"
  /\ UNCHANGED others
  /\ UNCHANGED <<env, info, timeout_expired, result, sockets, calls, waited>>

\* Mutant of ResetSock: the handle keeps the closed descriptor.
ResetSockKeepsHandle ==
  /\ pc = "reset"
  /\ info' = info + 1
  /\ pc' = "for"
  /\ UNCHANGED others
  /\ UNCHANGED <<env, sock, timeout_expired, result, sockets, calls, waited>>

\* lines 216, 165: sock = kInvalidSocket; info = info->ai_next.
ResetSock ==
  /\ pc = "reset"
  /\ sock' = kInvalidSocket
  /\ info' = info + 1
  /\ pc' = "for"
  /\ UNCHANGED others
  /\ UNCHANGED <<env, timeout_expired, result, sockets, calls, waited>>

\* Mutant of AllFailed: when no socket could be created at all, the error of
\* socket() is returned.
AllFailedSurfacesSocketError ==
  /\ pc = "after_loop"
  /\ IF AtEnd
       THEN /\ result' = Unexpected(
                 IF sockets = <<>> /\ calls # <<>>
                   THEN calls[Len(calls)].res
                   ELSE IF timeout_expired THEN "timed_out"
                        ELSE "connection_refused")
            /\ pc' = "done"
       ELSE /\ pc' = "set_blocking"
            /\ UNCHANGED result
  /\ UNCHANGED others
  /\ UNCHANGED <<env, info, sock, timeout_expired, sockets, calls, waited>>

\* lines 220-225: nothing connected.
AllFailed ==
  /\ pc = "after_loop"
  /\ IF AtEnd
       THEN /\ result' = Unexpected(IF timeout_expired THEN "timed_out"
                                    ELSE "connection_refused")
            /\ pc' = "done"
       ELSE /\ pc' = "set_blocking"
            /\ UNCHANGED result
  /\ UNCHANGED others
  /\ UNCHANGED <<env, info, sock, timeout_expired, sockets, calls, waited>>

\* Mutant of SetBlocking: the socket is left non-blocking.
SetBlockingFalse ==
  /\ pc = "set_blocking"
  /\ calls' = Append(calls, Call("set_socket_blocking", sock, FALSE, "ok"))
  /\ sockets' = SetBlockingOn(sockets, sock, FALSE)
  /\ pc' = "setsockopt"
  /\ UNCHANGED others
  /\ UNCHANGED <<env, info, sock, timeout_expired, result, waited>>

\* line 229: so_->set_socket_blocking(sock, true).
SetBlocking ==
  /\ pc = "set_blocking"
  /\ calls' = Append(calls, Call("set_socket_blocking", sock, TRUE, "ok"))
  /\ sockets' = SetBlockingOn(sockets, sock, TRUE)
  /\ pc' = "setsockopt"
  /\ UNCHANGED others
  /\ UNCHANGED <<env, info, sock, timeout_expired, result, waited>>

\* Mutant of SetNoDelay: the result of setsockopt() is not checked.
SetNoDelayUnchecked ==
  /\ pc = "setsockopt"
  /\ \/ /\ calls' = Append(calls, Call("setsockopt", sock, "TCP_NODELAY",
                                       "ok"))
        /\ sockets' = SetNoDelayOn(sockets, sock)
     \/ \E e \in SockoptErrors :
          /\ calls' = Append(calls, Call("setsockopt", sock, "TCP_NODELAY",
                                         e))
          /\ UNCHANGED sockets
  /\ result' = Expected(sock)
  /\ pc' = "done"
  /\ UNCHANGED others
  /\ UNCHANGED <<env, info, sock, timeout_expired, waited>>

\* lines 231-234, 242: so_->setsockopt(sock, IPPROTO_TCP, TCP_NODELAY, 1).
SetNoDelay ==
  /\ pc = "setsockopt"
  /\ \/ /\ calls' = Append(calls, Call("setsockopt", sock, "TCP_NODELAY",
                                       "ok"))
        /\ sockets' = SetNoDelayOn(sockets, sock)
        /\ result' = Expected(sock)
        /\ pc' = "done"
     \/ \E e \in SockoptErrors :
          /\ calls' = Append(calls, Call("setsockopt", sock, "TCP_NODELAY",
                                         e))
          /\ pc' = "sockopt_failed"
          /\ UNCHANGED <<sockets, result>>
  /\ UNCHANGED others
  /\ UNCHANGED <<env, info, sock, timeout_expired, waited>>

\* Mutant of SockoptFailed: the error is returned without closing.
SockoptFailedNoClose ==
  /\ pc = "sockopt_failed"
  /\ result' = Unexpected(calls[Len(calls)].res)
  /\ pc' = "done"
  /\ UNCHANGED others
  /\ UNCHANGED <<env, info, sock, timeout_expired, sockets, calls, waited>>

\* lines 235-239: close the socket and return the setsockopt error.
SockoptFailed ==
  /\ pc = "sockopt_failed"
  /\ calls' = Append(calls, Call("close", sock, info, "ok"))
  /\ sockets' = CloseOn(sockets, sock)
  /\ result' = Unexpected(calls[Len(calls)].res)
  /\ pc' = "done"
  /\ UNCHANGED others
  /\ UNCHANGED <<env, info, sock, timeout_expired, waited>>

Next ==
  \/ Resolve
  \/ LoopTest
  \/ CreateSocket
  \/ SetNonBlocking
  \/ Connect
  \/ ConnectWait
  \/ ConnectStatus
  \/ CloseSocket
  \/ ResetSock
  \/ AllFailed
  \/ SetBlocking
  \/ SetNoDelay
  \/ SockoptFailed

Spec == Init /\ [][Next]_vars

\* The function is straight-line code around one loop and every call it
\* makes returns, so an invocation that can take a step takes one.
FairSpec == Spec /\ WF_vars(Next)

\* The variables of get_mysql_socket, and their values in the specifications
\* that look at other functions of routing.cc and never call it.
engine == <<env, pc, info, sock, timeout_expired, result, sockets, calls,
            waited>>

EngineNotCalled ==
  /\ addrinfo_res = [ok |-> TRUE, ec |-> "none", list |-> <<>>]
  /\ connect_timeout_ms = 1
  /\ nonblock_at_create = TRUE
  /\ pc = "not_called"
  /\ info = 1
  /\ sock = kInvalidSocket
  /\ timeout_expired = FALSE
  /\ result = Pending
  /\ sockets = <<>>
  /\ calls = <<>>
  /\ waited = 0

\* ==== the strategy / access-mode name registry (lines 65-133) =============
\* Enumerators are the indexes of the name arrays ("keep in-sync with enum");
\* index 0 is kUndefined and holds nullptr.
kUndefined == 0
nullptr == "(nullptr)"

\* std::array is indexed from 0.
At(array, i) == array[i + 1]
Size(array) == Len(array)

\* lines 66-70
kAccessModeNames == <<nullptr, "read-write", "read-only">>

\* lines 92-98
kRoutingStrategyNames ==
  <<nullptr, "first-available", "next-available", "round-robin",
    "round-robin-with-fallback">>

\* lines 109-113
kRoutingStrategyNamesStatic ==
  <<"first-available", "next-available", "round-robin">>

\* lines 116-120
kRoutingStrategyNamesMetadataCache ==
  <<"first-available", "round-robin", "round-robin-with-fallback">>

AccessModes == 0..(Size(kAccessModeNames) - 1)
RoutingStrategies == 0..(Size(kRoutingStrategyNames) - 1)

\* The for loop of a lookup: the first index from i on whose name equals
\* value, kUndefined when the array ends first.
RECURSIVE FindName(_, _, _)
FindName(array, i, value) ==
  IF ~(i < Size(array)) THEN kUndefined
  ELSE IF At(array, i) = value THEN i
  ELSE FindName(array, i + 1, value)

\* Mutant of get_access_mode: a name that is not found is taken to be the
\* last mode.
get_access_mode_defaults(value) ==
  LET i == FindName(kAccessModeNames, 1, value) IN
  IF i = kUndefined THEN Size(kAccessModeNames) - 1 ELSE i

\* lines 72-76
get_access_mode(value) == FindName(kAccessModeNames, 1, value)

\* mysql_harness::serial_comma(begin, end): the display string, as the
\* sequence of the pieces written to it: "a", "a and b", "a, b, and c".
RECURSIVE SerialCommaMany(_)
SerialCommaMany(items) ==
  IF Len(items) = 1 THEN <<"and ", items[1]>>
  ELSE <<items[1], ", ">> \o SerialCommaMany(Tail(items))

serial_comma(items) ==
  IF Len(items) = 0 THEN <<>>
  ELSE IF Len(items) = 1 THEN <<items[1]>>
  ELSE IF Len(items) = 2 THEN <<items[1], " and ", items[2]>>
  ELSE SerialCommaMany(items)

\* lines 78-82: +1 skips undefined
get_access_mode_names == serial_comma(Tail(kAccessModeNames))

\* lines 84-89
get_access_mode_name(access_mode) ==
  IF access_mode = kUndefined THEN "<not-set>"
  ELSE At(kAccessModeNames, access_mode)

\* lines 100-105
get_routing_strategy(value) == FindName(kRoutingStrategyNames, 1, value)

\* Mutant of get_routing_strategy_names: the two lists are swapped.
get_routing_strategy_names_swapped(metadata_cache) ==
  serial_comma(IF metadata_cache THEN kRoutingStrategyNamesStatic
               ELSE kRoutingStrategyNamesMetadataCache)

\* lines 107-125
get_routing_strategy_names(metadata_cache) ==
  serial_comma(IF metadata_cache THEN kRoutingStrategyNamesMetadataCache
               ELSE kRoutingStrategyNamesStatic)

\* Mutant of get_routing_strategy_name: the array is read one entry early.
get_routing_strategy_name_off_by_one(routing_strategy) ==
  IF routing_strategy = kUndefined THEN "<not set>"
  ELSE At(kRoutingStrategyNames, routing_strategy - 1)

\* lines 127-133
get_routing_strategy_name(routing_strategy) ==
  IF routing_strategy = kUndefined THEN "<not set>"
  ELSE At(kRoutingStrategyNames, routing_strategy)

\* The canonical names, and the option values a configuration may hold.
CanonicalStrategyNames ==
  {At(kRoutingStrategyNames, i) : i \in RoutingStrategies \ {kUndefined}}
CanonicalModeNames ==
  {At(kAccessModeNames, i) : i \in AccessModes \ {kUndefined}}

OptionValues ==
  CanonicalStrategyNames \cup CanonicalModeNames \cup
  {"", "<not set>", "<not-set>", "First-Available", "ROUND-ROBIN",
   "Read-Write", "READ-ONLY", "round-robin ", " read-only", "round",
   "round-robin-with", "read", "first_available", "undefined"}

\* A caller of the registry: what it passes, and what each function
\* returned to it once called (`done` names the functions called so far).
RegistryInputs ==
  [at : {"ready"}, value : OptionValues, strategy : RoutingStrategies,
   mode : AccessModes, metadata_cache : BOOLEAN, done : {{}},
   strategy_of_value : {kUndefined}, mode_of_value : {kUndefined},
   strategy_name : {""}, mode_name : {""},
   strategy_back : {kUndefined}, mode_back : {kUndefined},
   strategy_names : {<<>>}, mode_names : {<<>>}]

InitRegistry ==
  /\ EngineNotCalled
  /\ InstanceNotCalled
  /\ NoWorkers
  /\ reg \in RegistryInputs

NotYet(f) == reg.at = "ready" /\ f \notin reg.done
Called(f) == reg.at = "ready" /\ f \in reg.done

\* get_routing_strategy(value) on the option value
GetRoutingStrategy ==
  /\ NotYet("get_routing_strategy")
  /\ reg' = [reg EXCEPT
       !.strategy_of_value = get_routing_strategy(reg.value),
       !.done = @ \cup {"get_routing_strategy"}]
  /\ UNCHANGED <<engine, statics, workers>>

\* get_access_mode(value) on the option value
GetAccessMode ==
  /\ NotYet("get_access_mode")
  /\ reg' = [reg EXCEPT
       !.mode_of_value = get_access_mode(reg.value),
       !.done = @ \cup {"get_access_mode"}]
  /\ UNCHANGED <<engine, statics, workers>>

\* get_routing_strategy_name(routing_strategy)
GetRoutingStrategyName ==
  /\ NotYet("get_routing_strategy_name")
  /\ reg' = [reg EXCEPT
       !.strategy_name = get_routing_strategy_name(reg.strategy),
       !.done = @ \cup {"get_routing_strategy_name"}]
  /\ UNCHANGED <<engine, statics, workers>>

\* get_access_mode_name(access_mode)
GetAccessModeName ==
  /\ NotYet("get_access_mode_name")
  /\ reg' = [reg EXCEPT
       !.mode_name = get_access_mode_name(reg.mode),
       !.done = @ \cup {"get_access_mode_name"}]
  /\ UNCHANGED <<engine, statics, workers>>

\* get_routing_strategy() on the name get_routing_strategy_name() returned
LookupStrategyName ==
  /\ Called("get_routing_strategy_name")
  /\ NotYet("strategy_back")
  /\ reg' = [reg EXCEPT
       !.strategy_back = get_routing_strategy(reg.strategy_name),
       !.done = @ \cup {"strategy_back"}]
  /\ UNCHANGED <<engine, statics, workers>>

\* get_access_mode() on the name get_access_mode_name() returned
LookupModeName ==
  /\ Called("get_access_mode_name")
  /\ NotYet("mode_back")
  /\ reg' = [reg EXCEPT
       !.mode_back = get_access_mode(reg.mode_name),
       !.done = @ \cup {"mode_back"}]
  /\ UNCHANGED <<engine, statics, workers>>

\* get_routing_strategy_names(metadata_cache)
GetRoutingStrategyNames ==
  /\ NotYet("get_routing_strategy_names")
  /\ reg' = [reg EXCEPT
       !.strategy_names = get_routing_strategy_names(reg.metadata_cache),
       !.done = @ \cup {"get_routing_strategy_names"}]
  /\ UNCHANGED <<engine, statics, workers>>

\* get_access_mode_names()
GetAccessModeNames ==
  /\ NotYet("get_access_mode_names")
  /\ reg' = [reg EXCEPT
       !.mode_names = get_access_mode_names,
       !.done = @ \cup {"get_access_mode_names"}]
  /\ UNCHANGED <<engine, statics, workers>>

NextRegistry ==
  \/ GetRoutingStrategy
  \/ GetAccessMode
  \/ GetRoutingStrategyName
  \/ GetAccessModeName
  \/ LookupStrategyName
  \/ LookupModeName
  \/ GetRoutingStrategyNames
  \/ GetAccessModeNames

RegistrySpec == InitRegistry /\ [][NextRegistry]_vars

\* ==== RoutingSockOps::instance (lines 135-139) ==========================
\* The socket-operations objects a caller may pass.
SockOpsObjects == {"so_a", "so_b"}

\* Mutant of InstanceCall: an instance that exists is bound to the argument
\* of the call.
InstanceCallRebinds(c, sock_ops) ==
  /\ callers[c].at = "idle"
  /\ Len(SelectSeq(instance_log, LAMBDA e : e.ev = "call"))
       < MaxInstanceCalls
  /\ instance_log' = Append(instance_log,
       [ev |-> "call", caller |-> c, sock_ops |-> sock_ops,
        id |-> 0, so_ |-> NoSockOps])
  /\ IF routing_sock_ops.guard = "uninitialized"
       THEN /\ routing_sock_ops' =
                 [routing_sock_ops EXCEPT !.guard = "initializing"]
            /\ callers' = [callers EXCEPT
                 ![c] = [at |-> "constructing", sock_ops |-> sock_ops]]
       ELSE IF routing_sock_ops.guard = "initializing"
       THEN /\ callers' = [callers EXCEPT
                 ![c] = [at |-> "blocked", sock_ops |-> sock_ops]]
            /\ UNCHANGED routing_sock_ops
       ELSE /\ callers' = [callers EXCEPT
                 ![c] = [at |-> "return", sock_ops |-> sock_ops]]
            /\ routing_sock_ops' =
                 [routing_sock_ops EXCEPT !.so_ = sock_ops]
  /\ UNCHANGED <<engine, workers, reg>>

\* line 137, the guard of the static: a call reaches the declaration.  The
\* first one to do so starts the construction; one that arrives while the
\* construction runs waits for it; later ones skip it.
InstanceCall(c, sock_ops) ==
  /\ callers[c].at = "idle"
  /\ Len(SelectSeq(instance_log, LAMBDA e : e.ev = "call"))
       < MaxInstanceCalls
  /\ instance_log' = Append(instance_log,
       [ev |-> "call", caller |-> c, sock_ops |-> sock_ops,
        id |-> 0, so_ |-> NoSockOps])
  /\ IF routing_sock_ops.guard = "uninitialized"
       THEN /\ routing_sock_ops' =
                 [routing_sock_ops EXCEPT !.guard = "initializing"]
            /\ callers' = [callers EXCEPT
                 ![c] = [at |-> "constructing", sock_ops |-> sock_ops]]
       ELSE /\ callers' = [callers EXCEPT
                 ![c] = [at |-> IF routing_sock_ops.guard = "initializing"
                                  THEN "blocked" ELSE "return",
                         sock_ops |-> sock_ops]]
            /\ UNCHANGED routing_sock_ops
  /\ UNCHANGED <<engine, workers, reg>>

\* line 137, the initializer: RoutingSockOps routing_sock_ops(sock_ops).
InstanceConstruct(c) ==
  /\ callers[c].at = "constructing"
  /\ routing_sock_ops' = [guard |-> "initialized",
                          so_ |-> callers[c].sock_ops,
                          id |-> routing_sock_ops.id + 1]
  /\ callers' = [callers EXCEPT ![c].at = "return"]
  /\ UNCHANGED <<engine, workers, reg, instance_log>>

\* line 137: a call that waited goes on once the static is constructed.
InstanceUnblock(c) ==
  /\ callers[c].at = "blocked"
  /\ routing_sock_ops.guard = "initialized"
  /\ callers' = [callers EXCEPT ![c].at = "return"]
  /\ UNCHANGED <<engine, workers, reg, routing_sock_ops, instance_log>>

\* line 138: return &routing_sock_ops.
InstanceReturn(c) ==
  /\ callers[c].at = "return"
  /\ instance_log' = Append(instance_log,
       [ev |-> "return", caller |-> c, sock_ops |-> callers[c].sock_ops,
        id |-> routing_sock_ops.id, so_ |-> routing_sock_ops.so_])
  /\ callers' = [callers EXCEPT ![c].at = "idle"]
  /\ UNCHANGED <<engine, workers, reg, routing_sock_ops>>

InitInstance ==
  /\ EngineNotCalled
  /\ reg = RegIdle
  /\ NoWorkers
  /\ InstanceNotCalled

NextInstance ==
  \/ \E c \in InstanceCallers, so \in SockOpsObjects : InstanceCall(c, so)
  \/ \E c \in InstanceCallers : InstanceConstruct(c)
  \/ \E c \in InstanceCallers : InstanceUnblock(c)
  \/ \E c \in InstanceCallers : InstanceReturn(c)

InstanceSpec == InitInstance /\ [][NextInstance]_vars

\* ==== concurrent invocations of get_mysql_socket =========================
\* Worker threads call get_mysql_socket at the same time on the one
\* RoutingSockOps instance.  Each has its own copy of the locals (info, sock,
\* timeout_expired), its own resolver answer and endpoint script, and its
\* own record of the calls it made; so_ has no fields the function writes,
\* so the descriptor table of the process is all they share.  One action is
\* one statement of one worker, as in the single invocation above.
Workers == {1, 2}
MaxWorkerCandidates == 1   \* longest addrinfo list of a concurrent worker

\* The endpoint behaviours the concurrent workers are scripted with.
WorkerBehaviours ==
  {b \in Behaviours :
     /\ b.create
     /\ b.connect # "operation_would_block"
     /\ b.status \in {"na", "ok"}}

WorkerResolverResults ==
       {[ok |-> FALSE, ec |-> e, list |-> <<>>] : e \in ResolverErrors}
  \cup {[ok |-> TRUE, ec |-> "none", list |-> l] :
          l \in UNION {[1..n -> WorkerBehaviours] :
                         n \in 0..MaxWorkerCandidates}}

InitWorkers ==
  /\ EngineNotCalled
  /\ reg = RegIdle
  /\ InstanceNotCalled
  /\ fds = <<>>
  /\ inv \in [Workers ->
       [addrinfo_res : WorkerResolverResults, pc : {"getaddrinfo"},
        info : {1}, sock : {kInvalidSocket}, timeout_expired : {FALSE},
        result : {Pending}, calls : {<<>>}]]

WAtEnd(w) == inv[w].info > Len(inv[w].addrinfo_res.list)
WCur(w) == inv[w].addrinfo_res.list[inv[w].info]

\* The call worker w records: as Call, with the socket the handle names in
\* the shared table at the moment of the call.
WCall(w, op, fd, arg, res) ==
  [op |-> op, cand |-> inv[w].info, fd |-> fd,
   inst |-> InstanceOf(fds, fd), arg |-> arg, res |-> res]

WLog(w, call) == Append(inv[w].calls, call)

\* lines 151-164
WResolve(w) ==
  /\ inv[w].pc = "getaddrinfo"
  /\ inv' = IF ~inv[w].addrinfo_res.ok
              THEN [inv EXCEPT
                      ![w].result = Unexpected(inv[w].addrinfo_res.ec),
                      ![w].pc = "done"]
              ELSE [inv EXCEPT ![w].pc = "for"]
  /\ UNCHANGED <<engine, reg, statics, fds>>

\* line 165
WLoopTest(w) ==
  /\ inv[w].pc = "for"
  /\ inv' = [inv EXCEPT
               ![w].pc = IF WAtEnd(w) THEN "after_loop" ELSE "socket"]
  /\ UNCHANGED <<engine, reg, statics, fds>>

\* lines 166-178
WCreateSocket(w) ==
  /\ inv[w].pc = "socket"
  /\ IF ~WCur(w).create
       THEN /\ inv' = [inv EXCEPT
                 ![w].calls = WLog(w, WCall(w, "socket", kInvalidSocket,
                                            nonblock_at_create,
                                            CHOOSE e \in SocketErrors : TRUE)),
                 ![w].info = @ + 1,
                 ![w].pc = "for"]
            /\ UNCHANGED fds
       ELSE /\ fds' = NewSocket(fds, <<w, inv[w].info>>, nonblock_at_create)
            /\ inv' = [inv EXCEPT
                 ![w].sock = LowestFreeFd(fds),
                 ![w].calls = WLog(w,
                    [WCall(w, "socket", kInvalidSocket, nonblock_at_create,
                           "ok")
                     EXCEPT !.fd = LowestFreeFd(fds),
                            !.inst = Len(fds) + 1]),
                 ![w].pc = "set_nonblocking"]
  /\ UNCHANGED <<engine, reg, statics>>

\* line 180
WSetNonBlocking(w) ==
  /\ inv[w].pc = "set_nonblocking"
  /\ inv' = [inv EXCEPT
       ![w].calls = WLog(w, WCall(w, "set_socket_blocking", inv[w].sock,
                                  FALSE, "ok")),
       ![w].pc = "connect"]
  /\ fds' = SetBlockingOn(fds, inv[w].sock, FALSE)
  /\ UNCHANGED <<engine, reg, statics>>

\* Mutant of WConnect: a connect() that fails outright closes the socket in
\* its branch and then falls into the common close as well.
WConnectClosesTwice(w) ==
  /\ inv[w].pc = "connect"
  /\ inv' = [inv EXCEPT
       ![w].calls = WLog(w, WCall(w, "connect", inv[w].sock, inv[w].info,
                                  WCur(w).connect)),
       ![w].pc = IF WCur(w).connect = "ok" THEN "after_loop"
                 ELSE IF WCur(w).connect \in InProgressErrors THEN "wait"
                 ELSE "close"]
  /\ fds' = IF WCur(w).connect \in ConnectErrors
              THEN CloseOn(fds, inv[w].sock) ELSE fds
  /\ UNCHANGED <<engine, reg, statics>>

\* lines 182-188, 205-212
WConnect(w) ==
  /\ inv[w].pc = "connect"
  /\ inv' = [inv EXCEPT
       ![w].calls = WLog(w, WCall(w, "connect", inv[w].sock, inv[w].info,
                                  WCur(w).connect)),
       ![w].pc = IF WCur(w).connect = "ok" THEN "after_loop"
                 ELSE IF WCur(w).connect \in InProgressErrors THEN "wait"
                 ELSE "close"]
  /\ UNCHANGED <<engine, reg, statics, fds>>

\* lines 189-198
WConnectWait(w) ==
  /\ inv[w].pc = "wait"
  /\ inv' = [inv EXCEPT
       ![w].calls = WLog(w, WCall(w, "connect_non_blocking_wait",
                                  inv[w].sock, connect_timeout_ms,
                                  WCur(w).wait)),
       ![w].timeout_expired = IF WCur(w).wait # "ok"
                                THEN WCur(w).wait = "timed_out" ELSE @,
       ![w].pc = IF WCur(w).wait # "ok" THEN "close" ELSE "status"]
  /\ UNCHANGED <<engine, reg, statics, fds>>

\* lines 199-203
WConnectStatus(w) ==
  /\ inv[w].pc = "status"
  /\ inv' = [inv EXCEPT
       ![w].calls = WLog(w, WCall(w, "connect_non_blocking_status",
                                  inv[w].sock, inv[w].info, WCur(w).status)),
       ![w].pc = IF WCur(w).status = "ok" THEN "after_loop" ELSE "close"]
  /\ UNCHANGED <<engine, reg, statics, fds>>

\* line 215
WCloseSocket(w) ==
  /\ inv[w].pc = "close"
  /\ inv' = [inv EXCEPT
       ![w].calls = WLog(w, WCall(w, "close", inv[w].sock, inv[w].info,
                                  "ok")),
       ![w].pc = "reset"]
  /\ fds' = CloseOn(fds, inv[w].sock)
  /\ UNCHANGED <<engine, reg, statics>>

\* lines 216, 165
WResetSock(w) ==
  /\ inv[w].pc = "reset"
  /\ inv' = [inv EXCEPT
       ![w].sock = kInvalidSocket,
       ![w].info = @ + 1,
       ![w].pc = "for"]
  /\ UNCHANGED <<engine, reg, statics, fds>>

\* lines 220-225
WAllFailed(w) ==
  /\ inv[w].pc = "after_loop"
  /\ inv' = IF WAtEnd(w)
              THEN [inv EXCEPT
                      ![w].result = Unexpected(IF inv[w].timeout_expired
                                                 THEN "timed_out"
                                                 ELSE "connection_refused"),
                      ![w].pc = "done"]
              ELSE [inv EXCEPT ![w].pc = "set_blocking"]
  /\ UNCHANGED <<engine, reg, statics, fds>>

\* line 229
WSetBlocking(w) ==
  /\ inv[w].pc = "set_blocking"
  /\ inv' = [inv EXCEPT
       ![w].calls = WLog(w, WCall(w, "set_socket_blocking", inv[w].sock,
                                  TRUE, "ok")),
       ![w].pc = "setsockopt"]
  /\ fds' = SetBlockingOn(fds, inv[w].sock, TRUE)
  /\ UNCHANGED <<engine, reg, statics>>

\* lines 231-234, 242
WSetNoDelay(w) ==
  /\ inv[w].pc = "setsockopt"
  /\ \/ /\ inv' = [inv EXCEPT
             ![w].calls = WLog(w, WCall(w, "setsockopt", inv[w].sock,
                                        "TCP_NODELAY", "ok")),
             ![w].result = Expected(inv[w].sock),
             ![w].pc = "done"]
        /\ fds' = SetNoDelayOn(fds, inv[w].sock)
     \/ \E e \in SockoptErrors :
          /\ inv' = [inv EXCEPT
               ![w].calls = WLog(w, WCall(w, "setsockopt", inv[w].sock,
                                          "TCP_NODELAY", e)),
               ![w].pc = "sockopt_failed"]
          /\ UNCHANGED fds
  /\ UNCHANGED <<engine, reg, statics>>

\* lines 235-239
WSockoptFailed(w) ==
  /\ inv[w].pc = "sockopt_failed"
  /\ inv' = [inv EXCEPT
       ![w].calls = WLog(w, WCall(w, "close", inv[w].sock, inv[w].info,
                                  "ok")),
       ![w].result = Unexpected(inv[w].calls[Len(inv[w].calls)].res),
       ![w].pc = "done"]
  /\ fds' = CloseOn(fds, inv[w].sock)
  /\ UNCHANGED <<engine, reg, statics>>

NextWorkers ==
  \/ \E w \in Workers : WResolve(w)
  \/ \E w \in Workers : WLoopTest(w)
  \/ \E w \in Workers : WCreateSocket(w)
  \/ \E w \in Workers : WSetNonBlocking(w)
  \/ \E w \in Workers : WConnect(w)
  \/ \E w \in Workers : WConnectWait(w)
  \/ \E w \in Workers : WConnectStatus(w)
  \/ \E w \in Workers : WCloseSocket(w)
  \/ \E w \in Workers : WResetSock(w)
  \/ \E w \in Workers : WAllFailed(w)
  \/ \E w \in Workers : WSetBlocking(w)
  \/ \E w \in Workers : WSetNoDelay(w)
  \/ \E w \in Workers : WSockoptFailed(w)

WorkersSpec == InitWorkers /\ [][NextWorkers]_vars

\* What one invocation returns when it runs with no other invocation beside
\* it: the statements of lines 165-225 executed in order over the addrinfo
\* list.  `won` is the index of the candidate it connected to, 0 for none.
RECURSIVE AloneFrom(_, _, _)
AloneFrom(list, i, flag) ==
  IF i > Len(list)
    THEN [won |-> 0,
          ec |-> IF flag THEN "timed_out" ELSE "connection_refused"]
  ELSE IF ~list[i].create THEN AloneFrom(list, i + 1, flag)
  ELSE IF list[i].connect = "ok" THEN [won |-> i, ec |-> "none"]
  ELSE IF list[i].connect \notin InProgressErrors
    THEN AloneFrom(list, i + 1, flag)
  ELSE IF list[i].wait # "ok"
    THEN AloneFrom(list, i + 1, list[i].wait = "timed_out")
  ELSE IF list[i].status = "ok" THEN [won |-> i, ec |-> "none"]
  ELSE AloneFrom(list, i + 1, flag)

\* lines 151-164, then the loop
RunAlone(res) ==
  IF ~res.ok THEN [won |-> 0, ec |-> res.ec]
  ELSE AloneFrom(res.list, 1, FALSE)

\* ---- what the recorded history says ----------------------------------
Done == pc = "done"
Failed == Done /\ result.has = "error"
Connected == Done /\ result.has = "value"

OpenSockets == {i \in 1..Len(sockets) : sockets[i].open}
CallsOf(op) == {k \in 1..Len(calls) : calls[k].op = op}
\* the socket() calls made so far, successful or not, in call order
Attempts == SelectSeq(calls, LAMBDA c : c.op = "socket")
\* the number of close() calls that named socket i
ClosesOf(i) == Cardinality({k \in CallsOf("close") : calls[k].inst = i})

\* The script lets this endpoint connect: at once, or after a completed
\* wait and a good connect status.
Wins(b) ==
  /\ b.create
  /\ \/ b.connect = "ok"
     \/ b.connect \in InProgressErrors /\ b.wait = "ok" /\ b.status = "ok"

\* The first endpoint of the list the script lets connect; 0 if none does.
FirstWinner(list) ==
  IF \E k \in 1..Len(list) : Wins(list[k])
    THEN CHOOSE k \in 1..Len(list) :
           Wins(list[k]) /\ \A j \in 1..(k - 1) : ~Wins(list[j])
    ELSE 0

\* ---- C1 ------------------------------------------------------------------
\* C1: whenever the invocation has returned a failure (resolver error,
\* exhaustion, setsockopt error), no socket it created is still open.
C1_NoSocketOpenAfterFailure ==
  Failed => OpenSockets = {}

\* C1 witness: the setsockopt failure was returned after two sockets had been
\* created (one for a losing candidate, one for the winner).
C1_Witness ==
  /\ Failed
  /\ result.ec \in SockoptErrors
  /\ Len(sockets) = 2

\* ---- C2 ------------------------------------------------------------------
\* C2: whenever the invocation has returned a handle, exactly one socket it
\* created is open, the handle names it, close() was never called on it, and
\* every other socket it created is closed.
C2_ReturnedSocketIsTheOnlyOpenOne ==
  Connected =>
    \E w \in 1..Len(sockets) :
      /\ OpenSockets = {w}
      /\ sockets[w].fd = result.sock
      /\ ClosesOf(w) = 0
      /\ \A i \in 1..Len(sockets) : i # w => ClosesOf(i) = 1

\* C2 witness: a handle was returned for the second candidate after the
\* first candidate's socket had been created and given up.
C2_Witness ==
  /\ Connected
  /\ Len(sockets) = 2
  /\ sockets[2].cand = 2

\* ---- C3 ------------------------------------------------------------------
\* C3: at most one socket of the invocation is open in any state, and the
\* open one is the one `sock` names; at the loop head, before socket() and
\* when the loop has been left by exhaustion, no socket is open and `sock`
\* is kInvalidSocket.
C3_AtMostOneSocketOpen ==
  /\ Cardinality(OpenSockets) <= 1
  /\ \A i \in OpenSockets : sockets[i].fd = sock
  /\ (pc \in {"for", "socket"} \/ (pc = "after_loop" /\ AtEnd)) =>
       (OpenSockets = {} /\ sock = kInvalidSocket)

\* C3 witness: the engine is about to create the second candidate's socket
\* after the first candidate's socket was created and lost.
C3_Witness ==
  /\ pc = "socket"
  /\ info = 2
  /\ Len(sockets) = 1

\* ---- C4 ------------------------------------------------------------------
\* C4: when the candidate list is exhausted without a winner, the error
\* returned is timed_out if the wait of at least one candidate timed out
\* during the invocation, and connection_refused otherwise.
C4_TimedOutIffAnyWaitTimedOut ==
  (Failed /\ addrinfo_res.ok /\ AtEnd) =>
    result.ec = (IF \E k \in CallsOf("connect_non_blocking_wait") :
                      calls[k].res = "timed_out"
                   THEN "timed_out" ELSE "connection_refused")

\* ---- C5 ------------------------------------------------------------------
\* C5: when getaddrinfo fails, the invocation goes from the resolver call
\* straight to its return, returns the resolver's error, creates no socket
\* and makes no socket-layer call.
C5_ResolutionFailureShortCircuits ==
  ~addrinfo_res.ok =>
    /\ pc \in {"getaddrinfo", "done"}
    /\ sockets = <<>>
    /\ calls = <<>>
    /\ Done => result = Unexpected(addrinfo_res.ec)

\* C5 witness: an invocation whose resolution failed has returned.
C5_Witness ==
  /\ ~addrinfo_res.ok
  /\ Failed
  /\ result.ec \in ResolverErrors

\* ---- C6 ------------------------------------------------------------------
\* C6: candidates are attempted in list order, one attempt each; every
\* candidate before the one being tried has failed and left no open socket;
\* no candidate after the first one the script lets connect is attempted;
\* a returned handle names the socket created for that first winner.
C6_InOrderFirstWinner ==
  LET list == addrinfo_res.list
      fw == FirstWinner(list) IN
  /\ \A k \in 1..Len(Attempts) : Attempts[k].cand = k
  /\ \A k, l \in 1..Len(calls) : k < l => calls[k].cand <= calls[l].cand
  /\ \A k \in 1..(Len(Attempts) - 1) :
       /\ ~Wins(list[k])
       /\ \A i \in OpenSockets : sockets[i].cand # k
  /\ fw # 0 => Len(Attempts) <= fw
  /\ (Done /\ addrinfo_res.ok) =>
       Len(Attempts) = (IF fw = 0 THEN Len(list) ELSE fw)
  /\ Connected =>
       /\ fw # 0
       /\ \A i \in OpenSockets : sockets[i].cand = fw

\* C6 witness: the first of two candidates connected after its wait, a
\* handle was returned, and the second candidate, which would have connected
\* too, was never attempted.
C6_Witness ==
  /\ Connected
  /\ Len(addrinfo_res.list) = 2
  /\ addrinfo_res.list[1].connect \in InProgressErrors
  /\ Wins(addrinfo_res.list[2])
  /\ Len(Attempts) = 1

\* ---- C7 ------------------------------------------------------------------
\* C7: a returned socket is blocking and has TCP_NODELAY set; the last two
\* calls of the invocation are set_socket_blocking(sock, true) and then a
\* successful setsockopt(TCP_NODELAY), both on the returned socket and both
\* after its connect.
C7_ReturnedSocketBlockingNoDelay ==
  Connected =>
    LET w == InstanceOf(sockets, result.sock)
        n == Len(calls) IN
    /\ w # 0
    /\ sockets[w].blocking
    /\ sockets[w].nodelay
    /\ n >= 2
    /\ calls[n - 1].op = "set_socket_blocking"
    /\ calls[n - 1].arg = TRUE
    /\ calls[n - 1].inst = w
    /\ calls[n].op = "setsockopt"
    /\ calls[n].res = "ok"
    /\ calls[n].inst = w
    /\ \A k \in CallsOf("connect") : k < n - 1

\* C7 witness: a handle was returned on a build that creates the socket
\* non-blocking, after a wait.
C7_Witness ==
  /\ Connected
  /\ nonblock_at_create
  /\ CallsOf("connect_non_blocking_wait") # {}

\* ---- C8 ------------------------------------------------------------------
\* C8: once setsockopt(TCP_NODELAY) has failed, the only call that follows
\* is the close() of that socket, no further candidate is attempted, and the
\* invocation returns the setsockopt error with the socket closed; a handle
\* is never returned without TCP_NODELAY set.
C8_SockoptFailureClosesAndReturns ==
  /\ \A k \in CallsOf("setsockopt") :
       calls[k].res # "ok" =>
         /\ pc \in {"sockopt_failed", "done"}
         /\ Len(calls) <= k + 1
         /\ Done =>
              /\ result = Unexpected(calls[k].res)
              /\ Len(calls) = k + 1
              /\ calls[k + 1].op = "close"
              /\ calls[k + 1].inst = calls[k].inst
              /\ calls[k].inst # 0
              /\ ~sockets[calls[k].inst].open
  /\ Connected =>
       \A i \in OpenSockets : sockets[i].fd = result.sock => sockets[i].nodelay

\* C8 witness: the setsockopt error was returned for the first of two
\* candidates; the second was never attempted.
C8_Witness ==
  /\ Failed
  /\ result.ec \in SockoptErrors
  /\ Len(addrinfo_res.list) = 2
  /\ Len(Attempts) = 1
  /\ OpenSockets = {}

\* ---- C9 ------------------------------------------------------------------
\* C9: every wait is started with exactly connect_timeout_ms, a candidate is
\* waited for at most once, and the time spent waiting is at most
\* connect_timeout_ms times the number of waits, hence at most
\* connect_timeout_ms times the number of candidates tried.
C9_TimeoutPerCandidate ==
  LET waits == CallsOf("connect_non_blocking_wait") IN
  /\ \A k \in waits : calls[k].arg = connect_timeout_ms
  /\ \A k, l \in waits : calls[k].cand = calls[l].cand => k = l
  /\ Cardinality(waits) <= Len(Attempts)
  /\ waited <= connect_timeout_ms * Cardinality(waits)
  /\ waited <= connect_timeout_ms * Len(Attempts)

\* C9 witness: two candidates in a row timed out and the second wait was
\* still given the whole timeout.
C9_Witness ==
  /\ Cardinality(CallsOf("connect_non_blocking_wait")) = 2
  /\ connect_timeout_ms > 1
  /\ waited = connect_timeout_ms + connect_timeout_ms

\* ---- C10 -----------------------------------------------------------------
\* C10: an error is returned only as the resolver's error, as timed_out or
\* connection_refused once every candidate has been tried and none could
\* win, or as the error of a failed setsockopt; a candidate that fails is
\* followed by an attempt on the next one while one remains.
C10_PerCandidateFailuresAbsorbed ==
  LET list == addrinfo_res.list IN
  /\ Failed =>
       \/ ~addrinfo_res.ok /\ result.ec = addrinfo_res.ec
       \/ /\ addrinfo_res.ok
          /\ result.ec \in {"timed_out", "connection_refused"}
          /\ Len(Attempts) = Len(list)
          /\ \A k \in 1..Len(list) : ~Wins(list[k])
       \/ /\ addrinfo_res.ok
          /\ result.ec \in SockoptErrors
          /\ \E k \in CallsOf("setsockopt") : calls[k].res = result.ec
  /\ (Done /\ addrinfo_res.ok) =>
       \A k \in 1..(Len(list) - 1) :
         (\A j \in 1..k : ~Wins(list[j])) => Len(Attempts) >= k + 1

\* C10 witness: socket() failed for the first candidate, connect() failed
\* outright for the second, and only then connection_refused was returned.
C10_Witness ==
  /\ Failed
  /\ result.ec = "connection_refused"
  /\ Len(addrinfo_res.list) = 2
  /\ ~addrinfo_res.list[1].create
  /\ addrinfo_res.list[2].connect \in ConnectErrors
  /\ Len(Attempts) = 2

\* ---- C15 -----------------------------------------------------------------
\* C15: whenever connect() is about to be called, the socket `sock` names is
\* open and non-blocking, on builds that request SOCK_NONBLOCK at creation
\* and on builds that do not; every connect() in the history is directly
\* preceded by set_socket_blocking(sock, false) on the same socket, itself
\* directly preceded by the socket() that created it.
C15_NonBlockingBeforeConnect ==
  /\ pc = "connect" =>
       LET i == InstanceOf(sockets, sock) IN
       /\ i # 0
       /\ sockets[i].cand = info
       /\ ~sockets[i].blocking
  /\ \A k \in CallsOf("connect") :
       /\ k >= 3
       /\ calls[k - 1].op = "set_socket_blocking"
       /\ calls[k - 1].arg = FALSE
       /\ calls[k - 1].inst = calls[k].inst
       /\ calls[k - 2].op = "socket"
       /\ calls[k - 2].inst = calls[k].inst
       /\ calls[k].inst # 0

\* C15 witness: connect() is about to be called on a build whose socket()
\* created the socket in blocking mode.
C15_Witness ==
  /\ pc = "connect"
  /\ ~nonblock_at_create
  /\ Len(sockets) = 1

\* ---- C16 -----------------------------------------------------------------
\* C16: every close() names a socket that is open at that moment and was
\* created for the candidate being tried, never kInvalidSocket; no socket is
\* closed twice; none is closed for a candidate whose socket() failed; and
\* at the return every socket created has been closed exactly once, except
\* a returned one, which has not been closed.
C16_ClosedExactlyOnce ==
  /\ \A k \in CallsOf("close") :
       /\ calls[k].fd # kInvalidSocket
       /\ calls[k].inst # 0
       /\ sockets[calls[k].inst].cand = calls[k].cand
       /\ addrinfo_res.list[calls[k].cand].create
  /\ \A i \in 1..Len(sockets) : ClosesOf(i) <= 1
  /\ Done =>
       \A i \in 1..Len(sockets) :
         ClosesOf(i) = (IF result.has = "value" /\ i \in OpenSockets
                          THEN 0 ELSE 1)

\* C16 witness: socket() failed for the first candidate, the second
\* candidate's socket was created and closed, and the invocation returned.
C16_Witness ==
  /\ Failed
  /\ Len(addrinfo_res.list) = 2
  /\ ~addrinfo_res.list[1].create
  /\ Len(sockets) = 1
  /\ ClosesOf(1) = 1

\* ---- C17 -----------------------------------------------------------------
\* C17: every invocation eventually returns, its result never changes after
\* the return, each candidate is attempted at most once and in order, and
\* the number of sockets created never exceeds the number of candidates.
C17_TerminatesOnce ==
  /\ <>Done
  /\ [](/\ Len(sockets) <= Len(addrinfo_res.list)
        /\ Len(Attempts) <= Len(addrinfo_res.list)
        /\ \A k, l \in 1..Len(Attempts) :
             Attempts[k].cand = Attempts[l].cand => k = l
        /\ Done = (result.has # "pending"))
  /\ [][result.has # "pending" => result' = result]_vars

\* C17 witness: the invocation returned after visiting both of two
\* candidates and creating a socket for each.
C17_Witness ==
  /\ Done
  /\ Len(addrinfo_res.list) = 2
  /\ Len(Attempts) = 2
  /\ Len(sockets) = 2

\* ---- C18 -----------------------------------------------------------------
\* C18: timeout_expired always equals "a wait has failed and the most recent
\* failed wait failed with timed_out"; on exhaustion the error is timed_out
\* exactly then and connection_refused otherwise.
LastFailedWait ==
  LET failed == {k \in CallsOf("connect_non_blocking_wait") :
                   calls[k].res # "ok"} IN
  IF failed = {} THEN 0
  ELSE CHOOSE k \in failed : \A l \in failed : l <= k

C18_LastFailedWaitDecides ==
  LET lastTimedOut == /\ LastFailedWait # 0
                      /\ calls[LastFailedWait].res = "timed_out" IN
  /\ timeout_expired = lastTimedOut
  /\ (Failed /\ addrinfo_res.ok /\ AtEnd) =>
       result.ec = (IF lastTimedOut THEN "timed_out"
                    ELSE "connection_refused")

\* C18 witness: the first candidate's wait timed out, the second one's wait
\* failed otherwise, and connection_refused was returned.
C18_Witness ==
  /\ Failed
  /\ result.ec = "connection_refused"
  /\ \E k \in CallsOf("connect_non_blocking_wait") :
       calls[k].res = "timed_out"

\* ---- C19 -----------------------------------------------------------------
\* C19: when resolution succeeds and socket() fails for every candidate (or
\* there is none), the only calls made are the failing socket() calls, no
\* socket exists, and the invocation returns connection_refused.
C19_NoSocketAtAll ==
  (addrinfo_res.ok /\ \A k \in 1..Len(addrinfo_res.list) :
                        ~addrinfo_res.list[k].create) =>
    /\ sockets = <<>>
    /\ \A k \in 1..Len(calls) :
         calls[k].op = "socket" /\ calls[k].res \in SocketErrors
    /\ Done =>
         /\ result = Unexpected("connection_refused")
         /\ Len(calls) = Len(addrinfo_res.list)

\* C19 witness: socket() failed for both of two candidates and the
\* invocation returned.
C19_Witness ==
  /\ Done
  /\ addrinfo_res.ok
  /\ Len(addrinfo_res.list) = 2
  /\ \A k \in 1..2 : ~addrinfo_res.list[k].create

\* ---- C12 -----------------------------------------------------------------
\* C12: looking up the name of a non-Undefined RoutingStrategy gives that
\* strategy back, and looking up the name of a non-Undefined AccessMode
\* gives that mode back.
C12_NameRoundTrip ==
  /\ (Called("strategy_back") /\ reg.strategy # kUndefined) =>
       reg.strategy_back = reg.strategy
  /\ (Called("mode_back") /\ reg.mode # kUndefined) =>
       reg.mode_back = reg.mode

\* C12 witness: RoundRobinWithFallback and ReadOnly have both gone through
\* name and lookup.
C12_Witness ==
  /\ Called("strategy_back")
  /\ Called("mode_back")
  /\ reg.strategy = 4
  /\ reg.strategy_name = "round-robin-with-fallback"
  /\ reg.mode = 2
  /\ reg.mode_name = "read-only"

\* ---- C13 -----------------------------------------------------------------
\* C13: get_routing_strategy and get_access_mode return kUndefined for every
\* option value that is not exactly one of their canonical names, and the
\* index of the name, never kUndefined, for a canonical name.
C13_LookupExactMatch ==
  /\ Called("get_routing_strategy") =>
       /\ reg.strategy_of_value \in RoutingStrategies
       /\ IF reg.value \in CanonicalStrategyNames
            THEN /\ reg.strategy_of_value # kUndefined
                 /\ At(kRoutingStrategyNames, reg.strategy_of_value)
                      = reg.value
            ELSE reg.strategy_of_value = kUndefined
  /\ Called("get_access_mode") =>
       /\ reg.mode_of_value \in AccessModes
       /\ IF reg.value \in CanonicalModeNames
            THEN /\ reg.mode_of_value # kUndefined
                 /\ At(kAccessModeNames, reg.mode_of_value) = reg.value
            ELSE reg.mode_of_value = kUndefined

\* C13 witness: the placeholder "<not-set>" was looked up in both registries.
C13_Witness ==
  /\ Called("get_routing_strategy")
  /\ Called("get_access_mode")
  /\ reg.value = "<not-set>"
  /\ reg.strategy_of_value = kUndefined
  /\ reg.mode_of_value = kUndefined

\* ---- C14 -----------------------------------------------------------------
\* C14: the listing for metadata-cache routing has no item "next-available",
\* the listing for static routing has no item "round-robin-with-fallback",
\* and both have the items "first-available" and "round-robin".
Items(listing) == {listing[k] : k \in 1..Len(listing)}

C14_ListingContextFiltered ==
  Called("get_routing_strategy_names") =>
    /\ reg.metadata_cache => "next-available" \notin Items(reg.strategy_names)
    /\ ~reg.metadata_cache =>
         "round-robin-with-fallback" \notin Items(reg.strategy_names)
    /\ "first-available" \in Items(reg.strategy_names)
    /\ "round-robin" \in Items(reg.strategy_names)

\* C14 witness: the listing for metadata-cache routing was produced.
C14_Witness ==
  /\ Called("get_routing_strategy_names")
  /\ reg.metadata_cache
  /\ "round-robin-with-fallback" \in Items(reg.strategy_names)

\* ---- C20 -----------------------------------------------------------------
\* C20: the static is constructed at most once; every call of instance(),
\* from any caller and with any argument, returns that one object; the
\* object is bound to the argument of the first call, and no later call
\* changes what it is bound to.
InstanceCalls == SelectSeq(instance_log, LAMBDA e : e.ev = "call")
InstanceReturns == SelectSeq(instance_log, LAMBDA e : e.ev = "return")

C20_SingleInstance ==
  /\ routing_sock_ops.id <= 1
  /\ routing_sock_ops.guard = "initialized" =>
       /\ routing_sock_ops.id = 1
       /\ routing_sock_ops.so_ = InstanceCalls[1].sock_ops
  /\ \A k \in 1..Len(InstanceReturns) :
       /\ InstanceReturns[k].id = 1
       /\ InstanceReturns[k].so_ = InstanceCalls[1].sock_ops

\* C20 witness: a second caller passed another object than the first call
\* and was handed the instance bound to the first call's object.
C20_Witness ==
  \E k \in 1..Len(InstanceReturns) :
    /\ InstanceReturns[k].caller # InstanceCalls[1].caller
    /\ InstanceReturns[k].sock_ops # InstanceCalls[1].sock_ops
    /\ InstanceReturns[k].so_ = InstanceCalls[1].sock_ops

\* ---- concurrent invocations ---------------------------------------------
WorkerDone(w) == inv[w].pc = "done"

\* The calls of worker w that act on a handle it passes.
HandleCalls(w) ==
  {k \in 1..Len(inv[w].calls) :
     inv[w].calls[k].op \in {"set_socket_blocking", "connect",
                             "connect_non_blocking_wait",
                             "connect_non_blocking_status",
                             "setsockopt", "close"}}

\* The result worker w got from setsockopt, "none" if it never called it.
SockoptResult(w) ==
  IF \E k \in 1..Len(inv[w].calls) : inv[w].calls[k].op = "setsockopt"
    THEN inv[w].calls[CHOOSE k \in 1..Len(inv[w].calls) :
                        inv[w].calls[k].op = "setsockopt"].res
    ELSE "none"

\* Worker w returned what it returns alone: the resolver's error, the
\* aggregate error, the setsockopt error, or the socket it created for the
\* first candidate that connects, open, blocking and with TCP_NODELAY set.
SameAsAlone(w) ==
  LET alone == RunAlone(inv[w].addrinfo_res)
      r == inv[w].result
  IN  IF alone.won = 0 THEN r = Unexpected(alone.ec)
      ELSE IF SockoptResult(w) # "ok"
        THEN /\ r = Unexpected(SockoptResult(w))
             /\ SockoptResult(w) \in SockoptErrors
             /\ \A i \in 1..Len(fds) :
                  fds[i].cand = <<w, alone.won>> => ~fds[i].open
      ELSE /\ r.has = "value"
           /\ InstanceOf(fds, r.sock) # 0
           /\ fds[InstanceOf(fds, r.sock)].cand = <<w, alone.won>>
           /\ fds[InstanceOf(fds, r.sock)].blocking
           /\ fds[InstanceOf(fds, r.sock)].nodelay

\* C11: concurrent invocations of get_mysql_socket that share one
\* socket-operations capability do not interfere, whatever the
\* interleaving: every handle an invocation connects, configures or closes
\* names, at that moment, a socket the same invocation created, and an
\* invocation that has returned returned what it returns when it runs alone
\* with the same per-call results.
C11_ConcurrentInvocationsIndependent ==
  \A w \in Workers :
    /\ \A k \in HandleCalls(w) :
         /\ inv[w].calls[k].inst # 0
         /\ fds[inv[w].calls[k].inst].cand[1] = w
    /\ WorkerDone(w) => SameAsAlone(w)

\* C11 witness: one invocation has closed the socket of a failed candidate
\* and not yet cleared its local handle, and meanwhile the other invocation
\* was given the same descriptor number, connected it and returned it; the
\* stale handle of the first names the live socket of the second.
C11_Witness ==
  \E w \in Workers, v \in Workers :
    /\ w # v
    /\ inv[w].pc = "reset"
    /\ WorkerDone(v)
    /\ inv[v].result.has = "value"
    /\ inv[v].result.sock = inv[w].sock
    /\ SameAsAlone(v)

TypeOK ==
  /\ addrinfo_res \in ResolverResults
  /\ connect_timeout_ms \in 1..MaxTimeout
  /\ info \in 1..(Len(addrinfo_res.list) + 1)
  /\ timeout_expired \in BOOLEAN
  /\ result.has \in {"pending", "value", "error"}
  /\ (pc = "done") = (result.has # "pending")
====
